---- MODULE Spec2Model ----
(***************************************************************************)
(* Model of src/src/csv.rs of twiddler-cfg: the Chord record, the CSV      *)
(* codec (parse / export) and the output encoder Chord::get_hid_pairs.     *)
(*                                                                         *)
(* A Rust String is modelled as a sequence of characters, every character  *)
(* a one-element TLA+ string.  "U+00E9" stands for the single character    *)
(* e-acute, whose UTF-8 encoding is two bytes; every other character used  *)
(* here is ASCII and is one byte long.  Byte offsets and character indexes *)
(* are kept apart, as they are in Rust: String::len and the slice          *)
(* &s[a..b] count bytes, chars().enumerate() counts characters.            *)
(***************************************************************************)
EXTENDS Naturals, Sequences, FiniteSets, TLC

VARIABLES
    keys,       \* the lookup table hid::keys_hid() of this build
    calls,      \* invocation id -> frame of one get_hid_pairs call
    probe,      \* history: the output string whose first result is kept
    first,      \* history: the first value returned for probe, or None
    ncalls,     \* history: the number of calls made so far
    csv         \* the state of the codec (records, text, decoded result)

vars == <<keys, calls, probe, first, ncalls, csv>>

\* Option<T> : None, and Some(x) with its payload x == Some(x)[1]
None == <<>>

Some(x) == <<x>>

(***************************************************************************)
(* Characters and strings                                                  *)
(***************************************************************************)
EAcute == "U+00E9"

\* char::len_utf8
LenUtf8(c) == IF c = EAcute THEN 2 ELSE 1

RECURSIVE ByteLen(_)
\* String::len : the length of the string in BYTES
ByteLen(s) == IF s = <<>> THEN 0 ELSE LenUtf8(Head(s)) + ByteLen(Tail(s))

\* byte offset at which the k-th character (k = 1..Len(s)) starts
CharStart(s, k) == ByteLen(SubSeq(s, 1, k - 1))

\* str::is_char_boundary
IsCharBoundary(s, b) ==
    \/ b = ByteLen(s)
    \/ \E k \in 1..Len(s) : CharStart(s, k) = b

\* whether &s[a..b] is a valid slice; when it is not, indexing panics
SliceOk(s, a, b) ==
    /\ a <= b
    /\ b <= ByteLen(s)
    /\ IsCharBoundary(s, a)
    /\ IsCharBoundary(s, b)

\* &s[a..b] : the characters whose bytes lie in the byte range a..b
Slice(s, a, b) ==
    LET before == Cardinality({k \in 1..Len(s) : CharStart(s, k) < a})
        inside == Cardinality({k \in 1..Len(s) : a <= CharStart(s, k) /\ CharStart(s, k) < b})
    IN  SubSeq(s, before + 1, before + inside)

(***************************************************************************)
(* The modifier names of the tag table, and 8-bit arithmetic               *)
(***************************************************************************)
LCtrl  == <<"L", "-", "C", "t", "r", "l">>
LShift == <<"L", "-", "S", "h", "i", "f", "t">>
LAlt   == <<"L", "-", "A", "l", "t">>
LGui   == <<"L", "-", "G", "u", "i">>
RCtrl  == <<"R", "-", "C", "t", "r", "l">>
RShift == <<"R", "-", "S", "h", "i", "f", "t">>
RAlt   == <<"R", "-", "A", "l", "t">>
RGui   == <<"R", "-", "G", "u", "i">>

Names == {LCtrl, LShift, LAlt, LGui, RCtrl, RShift, RAlt, RGui}

\* the match on tag_contents
Modifier(tag_contents) ==
    CASE tag_contents = LCtrl  -> 1
      [] tag_contents = LShift -> 2
      [] tag_contents = LAlt   -> 4
      [] tag_contents = LGui   -> 8
      [] tag_contents = RCtrl  -> 16
      [] tag_contents = RShift -> 32
      [] tag_contents = RAlt   -> 64
      [] tag_contents = RGui   -> 128
      [] OTHER                 -> 0

RECURSIVE BitAnd(_, _, _)
\* a & b on the n low bits
BitAnd(a, b, n) ==
    IF n = 0 THEN 0
    ELSE ((a % 2) * (b % 2)) + 2 * BitAnd(a \div 2, b \div 2, n - 1)

\* !a on a u8
BitNot(a) == 255 - a

\* a | b on a u8
BitOr(a, b) == a + b - BitAnd(a, b, 8)

\* whether the mask m carries every bit of b
HasBits(m, b) == BitAnd(m, b, 8) = b

ENTER_CODE == 100
SLASH_CODE == 56

(***************************************************************************)
(* The lookup table hid::keys_hid() and BiMap::get_by_right                *)
(***************************************************************************)
\* a build whose table maps the characters A and / and the strings AA and
\* <L-Ctrl>A
SampleKeys ==
    (<<"A">> :> 4) @@ (<<"/">> :> SLASH_CODE) @@ (<<"A", "A">> :> 5)
        @@ ((<<"<">> \o LCtrl \o <<">", "A">>) :> 6)

\* a build whose table is empty
NoKeys == <<>>

KeyTables == {NoKeys, SampleKeys}

\* keys_hid().get_by_right(s)
GetByRight(table, s) == IF s \in DOMAIN table THEN Some(table[s]) ELSE None

(***************************************************************************)
(* Chord::get_hid_pairs.  A frame holds one call: the record's output, the *)
(* position of the call, the locals of the scan and the returned value.    *)
(* i is the 0-based index of enumerate(); the character read is            *)
(* output[i + 1].                                                          *)
(***************************************************************************)
\* the frame of an invocation that has not been called yet
IdleFrame ==
    [output |-> <<>>, pc |-> "idle", i |-> 0,
     hid_pairs |-> <<>>, current_modifiers |-> 0,
     reading_tag |-> FALSE, tag_start |-> 0, closing |-> FALSE,
     ret |-> None]

\* InitLocals with the mask kept in a static that outlives the call
InitLocalsStatic(f) ==
    [f EXCEPT !.hid_pairs = <<>>,
              !.reading_tag = FALSE, !.tag_start = 0, !.closing = FALSE,
              !.i = 0]

\* let mut hid_pairs .. let mut closing : the locals of one call
InitLocals(f) ==
    [f EXCEPT !.hid_pairs = <<>>, !.current_modifiers = 0,
              !.reading_tag = FALSE, !.tag_start = 0, !.closing = FALSE,
              !.i = 0]

\* the fast path taken when self.output.len() == 1
FastPath(table, out) ==
    IF GetByRight(table, out) # None
    THEN << <<0, GetByRight(table, out)[1]>> >>
    ELSE << <<0, 0>> >>

\* whether the call returns before the scan
TakesFastPath(out) == ByteLen(out) = 1

\* function entry up to the for loop
Enter(f, table, out) ==
    IF TakesFastPath(out)
    THEN [f EXCEPT !.output = out, !.pc = "returned", !.ret = Some(FastPath(table, out))]
    ELSE [InitLocals(f) EXCEPT !.output = out, !.pc = "scan", !.ret = None]

\* ('<', false)
LtLiteral(f) == [f EXCEPT !.reading_tag = TRUE, !.tag_start = f.i]

\* LtInTag leaving tag_start at the '<' that opened the tag
LtInTagKeepsStart(f) ==
    [f EXCEPT !.hid_pairs = Append(@, <<f.current_modifiers, ENTER_CODE>>)]

\* ('<', true)
LtInTag(f) ==
    [f EXCEPT !.tag_start = f.i,
              !.hid_pairs = Append(@, <<f.current_modifiers, ENTER_CODE>>)]

\* GtInTag with events that hold a reference to the mask instead of its value
GtInTagAliased(f) ==
    IF ~SliceOk(f.output, f.tag_start + 1, f.i)
    THEN [f EXCEPT !.reading_tag = FALSE, !.pc = "panicked"]
    ELSE LET tag_contents == Slice(f.output, f.tag_start + 1, f.i)
             modifier == Modifier(tag_contents)
             mask == IF f.closing THEN BitAnd(f.current_modifiers, BitNot(modifier), 8)
                                  ELSE BitOr(f.current_modifiers, modifier)
         IN  [f EXCEPT !.reading_tag = FALSE,
                       !.current_modifiers = mask,
                       !.hid_pairs = [k \in 1..Len(f.hid_pairs) |-> <<mask, f.hid_pairs[k][2]>>]]

\* ('>', true) : the slice panics unless both ends are character boundaries
GtInTag(f) ==
    IF ~SliceOk(f.output, f.tag_start + 1, f.i)
    THEN [f EXCEPT !.reading_tag = FALSE, !.pc = "panicked"]
    ELSE LET tag_contents == Slice(f.output, f.tag_start + 1, f.i)
             modifier == Modifier(tag_contents)
         IN  [f EXCEPT !.reading_tag = FALSE,
                       !.current_modifiers =
                           IF f.closing THEN BitAnd(@, BitNot(modifier), 8)
                                        ELSE BitOr(@, modifier)]

\* ('>', false)
GtLiteral(f) ==
    [f EXCEPT !.hid_pairs = Append(@, <<f.current_modifiers, ENTER_CODE>>)]

\* SlashInTag emitting the slash keystroke as the Literal arm does
SlashInTagEmits(f) ==
    [f EXCEPT !.closing = FALSE,
              !.hid_pairs = Append(@, <<f.current_modifiers, SLASH_CODE>>)]

\* ('/', true)
SlashInTag(f) == [f EXCEPT !.closing = FALSE]

\* SlashLiteral emitting the code of the '>' arm
SlashLiteralEnter(f) ==
    [f EXCEPT !.hid_pairs = Append(@, <<f.current_modifiers, ENTER_CODE>>)]

\* ('/', false)
SlashLiteral(f) ==
    [f EXCEPT !.hid_pairs = Append(@, <<f.current_modifiers, SLASH_CODE>>)]

\* OtherLiteral looking up the character read
OtherLiteralPerChar(f, table) ==
    IF GetByRight(table, <<f.output[f.i + 1]>>) # None
    THEN [f EXCEPT !.hid_pairs =
              Append(@, <<f.current_modifiers, GetByRight(table, <<f.output[f.i + 1]>>)[1]>>)]
    ELSE f

\* (_, false) : the lookup is by the whole of self.output
OtherLiteral(f, table) ==
    IF GetByRight(table, f.output) # None
    THEN [f EXCEPT !.hid_pairs =
              Append(@, <<f.current_modifiers, GetByRight(table, f.output)[1]>>)]
    ELSE f

\* (_, true)
OtherInTag(f) == f

\* the match (c, reading_tag) of one iteration
MatchArm(f, table) ==
    LET c == f.output[f.i + 1]
    IN  CASE c = "<" /\ ~f.reading_tag -> LtLiteral(f)
          [] c = "<" /\ f.reading_tag  -> LtInTag(f)
          [] c = ">" /\ f.reading_tag  -> GtInTag(f)
          [] c = ">" /\ ~f.reading_tag -> GtLiteral(f)
          [] c = "/" /\ f.reading_tag  -> SlashInTag(f)
          [] c = "/" /\ ~f.reading_tag -> SlashLiteral(f)
          [] c \notin {"<", ">", "/"} /\ ~f.reading_tag -> OtherLiteral(f, table)
          [] OTHER -> OtherInTag(f)

\* one iteration of for (i, c) in self.output.chars().enumerate()
Iterate(f, table) ==
    LET g == MatchArm(f, table)
    IN  IF g.pc = "panicked" THEN g ELSE [g EXCEPT !.i = f.i + 1]

\* Store with current_modifiers one static shared by every invocation
StoreShared(c, p, f) ==
    [q \in DOMAIN c |->
        IF q = p THEN f
        ELSE [c[q] EXCEPT !.current_modifiers = f.current_modifiers]]

\* the frame of invocation p is its own: the locals live on the stack of the call
Store(c, p, f) == [c EXCEPT ![p] = f]

\* the end of the loop: hid_pairs is returned
ReturnPairs(f) == [f EXCEPT !.pc = "returned", !.ret = Some(f.hid_pairs)]

RECURSIVE FrameAfter(_, _, _)
\* the frame after at most n further iterations of the loop, run without interruption
FrameAfter(f, table, n) ==
    IF n = 0 \/ f.pc # "scan" \/ f.i >= Len(f.output) THEN f
    ELSE FrameAfter(Iterate(f, table), table, n - 1)

\* the scan run to its end without interruption
RunScan(f, table) ==
    LET g == FrameAfter(f, table, Len(f.output))
    IN  IF g.pc = "scan" THEN ReturnPairs(g) ELSE g

\* get_hid_pairs run alone: Some(the returned vector), or None when it panics
GetHidPairs(table, out) == RunScan(Enter(IdleFrame, table, out), table).ret

(***************************************************************************)
(* The CSV codec: Chord, export and parse.  The text is the sequence of    *)
(* characters that csv::Writer writes and csv::Reader reads, both with     *)
(* their default settings: delimiter ',', quote '"' doubled inside a       *)
(* quoted field, records ended by a line feed, a header record first.      *)
(***************************************************************************)
Comma == ","
Quote == "\""
LineFeed == "\n"

\* the serde names of the fields of Chord: the field name, then its aliases
ThumbsNames == {<<"t", "h", "u", "m", "b", "s">>, <<"T", "h", "u", "m", "b", "s">>}

FingersNamesNoAlias == {<<"f", "i", "n", "g", "e", "r", "s">>, <<"F", "i", "n", "g", "e", "r", "s">>}

FingersNames == {<<"f", "i", "n", "g", "e", "r", "s">>, <<" ", "F", "i", "n", "g", "e", "r", "s">>, <<"F", "i", "n", "g", "e", "r", "s">>}

OutputNames == {<<"o", "u", "t", "p", "u", "t">>, <<"K", "e", "y", "b", "o", "a", "r", "d", " ", "O", "u", "t", "p", "u", "t">>}

\* the header record that serializing a Chord writes: the field names
StructHeader == <<<<"t", "h", "u", "m", "b", "s">>, <<"f", "i", "n", "g", "e", "r", "s">>, <<"o", "u", "t", "p", "u", "t">>>>

\* struct Chord
Chord(thumbs, fingers, output) ==
    [thumbs |-> thumbs, fingers |-> fingers, output |-> output]

\* csv::Writer : whether a field is written between quotes; an empty field is
\* quoted when it is the only field of its record
NeedsQuotes(field, alone) ==
    \/ \E k \in 1..Len(field) : field[k] \in {Comma, Quote, LineFeed}
    \/ field = <<>> /\ alone

\* DoubleQuotes that writes the field as it is
KeepQuotes(field) == field

RECURSIVE DoubleQuotes(_)
\* the writer's escaping of a quoted field: every quote is written twice
DoubleQuotes(field) ==
    IF field = <<>> THEN <<>>
    ELSE (IF Head(field) = Quote THEN <<Quote, Quote>> ELSE <<Head(field)>>)
         \o DoubleQuotes(Tail(field))

\* csv::Writer : one field
WriteField(field, alone) ==
    IF NeedsQuotes(field, alone)
    THEN <<Quote>> \o DoubleQuotes(field) \o <<Quote>>
    ELSE field

RECURSIVE WriteFields(_, _)
WriteFields(fields, alone) ==
    IF fields = <<>> THEN <<>>
    ELSE WriteField(Head(fields), alone)
         \o (IF Len(fields) > 1 THEN <<Comma>> ELSE <<>>)
         \o WriteFields(Tail(fields), alone)

\* csv::Writer::write_record : the fields, comma separated, and the terminator
WriteRecord(fields) == WriteFields(fields, Len(fields) = 1) \o <<LineFeed>>

\* serializing an Option<String>: None is the empty field
OptionField(o) == IF o = None THEN <<>> ELSE o[1]

ChordFieldsSwapped(chord) ==
    <<OptionField(chord.fingers), OptionField(chord.thumbs), chord.output>>

\* wtr.serialize(chord) : the three fields of the struct in declaration order
ChordFields(chord) ==
    <<OptionField(chord.thumbs), OptionField(chord.fingers), chord.output>>

RECURSIVE WriteRecords(_)
WriteRecords(records) ==
    IF records = <<>> THEN <<>>
    ELSE WriteRecord(Head(records)) \o WriteRecords(Tail(records))

\* export : the header is written with the first chord, then one record a chord
ExportText(chords) ==
    IF chords = <<>> THEN <<>>
    ELSE WriteRecord(StructHeader)
         \o WriteRecords([k \in 1..Len(chords) |-> ChordFields(chords[k])])

\* csv::Reader before the first character: st is the state of the field being
\* read, field and record what has been read of them, records the complete records
ReaderStart == [st |-> "start", field |-> <<>>, record |-> <<>>, records |-> <<>>]

\* csv::Reader reading the character c.  A line without any field is skipped.
ReadChar(r, c) ==
    LET endField == [r EXCEPT !.st = "start", !.field = <<>>,
                              !.record = Append(r.record, r.field)]
        endRecord == [r EXCEPT !.st = "start", !.field = <<>>, !.record = <<>>,
                               !.records = Append(@, Append(r.record, r.field))]
        addChar(to) == [r EXCEPT !.st = to, !.field = Append(@, c)]
    IN  CASE r.st = "start" ->
               IF c = Quote THEN [r EXCEPT !.st = "quoted"]
               ELSE IF c = Comma THEN endField
               ELSE IF c = LineFeed THEN (IF r.record = <<>> THEN r ELSE endRecord)
               ELSE addChar("unquoted")
          [] r.st = "unquoted" ->
               IF c = Comma THEN endField
               ELSE IF c = LineFeed THEN endRecord
               ELSE addChar("unquoted")
          [] r.st = "quoted" ->
               IF c = Quote THEN [r EXCEPT !.st = "closing"]
               ELSE addChar("quoted")
          [] r.st = "closing" ->
               IF c = Quote THEN addChar("quoted")
               ELSE IF c = Comma THEN endField
               ELSE IF c = LineFeed THEN endRecord
               ELSE addChar("unquoted")

ReaderStates == {"start", "unquoted", "quoted", "closing"}

RECURSIVE ReadRange(_, _, _, _)
\* csv::Reader reading the characters lo..hi of the text, in order (the reader's
\* state is looked at first, so that it is computed before the next character)
ReadRange(r, text, lo, hi) ==
    IF r.st \notin ReaderStates \/ lo > hi THEN r
    ELSE IF lo = hi THEN ReadChar(r, text[lo])
    ELSE LET mid == (lo + hi) \div 2
         IN  ReadRange(ReadRange(r, text, lo, mid), text, mid + 1, hi)

\* the records of a text, the header record first; the end of the text ends the
\* record being read
ReadRecords(text) ==
    LET r == ReadRange(ReaderStart, text, 1, Len(text))
    IN  IF r.st = "start" /\ r.record = <<>> THEN r.records
        ELSE Append(r.records, Append(r.record, r.field))

\* the columns of the header whose name is one of names
Columns(header, names) == {k \in 1..Len(header) : header[k] \in names}

\* deserializing an Option<String>: the empty field is None
FieldOption(field) == IF field = <<>> THEN None ELSE Some(field)

\* an optional field of Chord read from a record: None when it has no column
OptionalField(record, cols) ==
    IF cols = {} THEN None ELSE FieldOption(record[CHOOSE k \in cols : TRUE])

\* a failed row
RowErr == [ok |-> FALSE, chord |-> Chord(None, None, <<>>)]

\* one item of rdr.deserialize() : a row gives a Chord, or an error when its
\* length is not the header's, when a field of Chord has two columns or when
\* output has none
DeserializeRow(header, record) ==
    LET t == Columns(header, ThumbsNames)
        f == Columns(header, FingersNames)
        o == Columns(header, OutputNames)
    IN  IF \/ Len(record) # Len(header)
           \/ Cardinality(t) > 1 \/ Cardinality(f) > 1 \/ Cardinality(o) # 1
        THEN RowErr
        ELSE [ok |-> TRUE,
              chord |-> Chord(OptionalField(record, t), OptionalField(record, f),
                              record[CHOOSE k \in o : TRUE])]

\* Err(e) of parse
ParseErr == [ok |-> FALSE, chords |-> <<>>]

\* Collect that keeps the rows that deserialized and drops the others
CollectOk(items) ==
    LET good == SelectSeq(items, LAMBDA r : r.ok)
    IN  [ok |-> TRUE, chords |-> [k \in 1..Len(good) |-> good[k].chord]]

\* collect() into Result<Vec<Chord>, csv::Error> : the first error is the result
Collect(items) ==
    IF \E k \in 1..Len(items) : ~items[k].ok THEN ParseErr
    ELSE [ok |-> TRUE, chords |-> [k \in 1..Len(items) |-> items[k].chord]]

\* parse : Ok(chords) or Err
ParseText(text) ==
    LET records == ReadRecords(text)
    IN  IF records = <<>> THEN [ok |-> TRUE, chords |-> <<>>]
        ELSE Collect([k \in 1..(Len(records) - 1) |->
                         DeserializeRow(records[1], records[k + 1])])

(***************************************************************************)
(* The tables the model exports and the files it parses                    *)
(***************************************************************************)
MaxChords == 2
MaxRows == 2

\* all sequences of at most n elements of S
SeqsUpTo(S, n) == UNION {[1..k -> S] : k \in 0..n}

ThumbsValues == {None, Some(<<>>), Some(<<"a", Comma>>)}

FingersValues == {None, Some(<<>>), Some(<<Quote>>)}

\* the output of the first chord of test_export
CtrlF == <<"<", "L", "-", "C", "t", "r", "l", ">", "F">>

OutputValues == {<<>>, <<"a">>, CtrlF, <<Comma, Quote>>, <<Quote, LineFeed, "a">>}

Chords ==
    {Chord(t, f, o) : t \in ThumbsValues, f \in FingersValues, o \in OutputValues}

\* the header records of the files parsed
Headers ==
    {<<<<"T", "h", "u", "m", "b", "s">>, <<"F", "i", "n", "g", "e", "r", "s">>, <<"K", "e", "y", "b", "o", "a", "r", "d", " ", "O", "u", "t", "p", "u", "t">>>>,
     <<<<"T", "h", "u", "m", "b", "s">>, <<" ", "F", "i", "n", "g", "e", "r", "s">>, <<"K", "e", "y", "b", "o", "a", "r", "d", " ", "O", "u", "t", "p", "u", "t">>>>,
     <<<<"K", "e", "y", "b", "o", "a", "r", "d", " ", "O", "u", "t", "p", "u", "t">>, <<"T", "h", "u", "m", "b", "s">>>>,
     <<<<"T", "h", "u", "m", "b", "s">>, <<"F", "i", "n", "g", "e", "r", "s">>>>,
     <<<<"T", "h", "u", "m", "b", "s">>, <<"t", "h", "u", "m", "b", "s">>, <<"o", "u", "t", "p", "u", "t">>>>}

\* the data rows of the files parsed: one to three fields, some of them with
\* the characters the writer quotes, and a row of tags as in test_parse
Rows ==
    UNION {[1..k -> {<<>>, <<"a">>}] : k \in 1..3}
    \cup {<<<<Quote, "a">>, <<>>, <<Comma>>>>, <<<<"a">>, <<LineFeed>>>>,
          <<<<"<", "T", "1", ">">>, <<"<", "T", "2", ">">>, CtrlF>>}

\* the codec before any call
CsvIdle ==
    [pc |-> "idle", from |-> "none", chords |-> <<>>, header |-> <<>>, rows |-> <<>>,
     text |-> <<>>, result |-> ParseErr]

\* export(writer, chords) : the text is in the writer once export has flushed
Export ==
    /\ csv.pc = "idle"
    /\ \E chords \in SeqsUpTo(Chords, MaxChords) :
           csv' = [csv EXCEPT !.pc = "written", !.from = "export", !.chords = chords,
                              !.text = ExportText(chords)]
    /\ UNCHANGED <<keys, calls, probe, first, ncalls>>

\* a file made of a header record and data rows is handed to parse
Load ==
    /\ csv.pc = "idle"
    /\ \E header \in Headers : \E rows \in SeqsUpTo(Rows, MaxRows) :
           csv' = [csv EXCEPT !.pc = "written", !.from = "file", !.header = header,
                              !.rows = rows,
                              !.text = WriteRecords(<<header>> \o rows)]
    /\ UNCHANGED <<keys, calls, probe, first, ncalls>>

\* parse(reader)
Parse ==
    /\ csv.pc = "written"
    /\ csv' = [csv EXCEPT !.pc = "parsed", !.result = ParseText(csv.text)]
    /\ UNCHANGED <<keys, calls, probe, first, ncalls>>

InitCsv ==
    /\ keys = NoKeys
    /\ calls = <<>>
    /\ probe = None
    /\ first = None
    /\ ncalls = 0
    /\ csv = CsvIdle

NextCsv == Export \/ Load \/ Parse

SpecCsv == InitCsv /\ [][NextCsv]_vars

(***************************************************************************)
(* The output strings the model encodes: concatenations of a few parts.    *)
(***************************************************************************)
RECURSIVE Concat(_)
\* the concatenation of a sequence of strings
Concat(ss) == IF ss = <<>> THEN <<>> ELSE Head(ss) \o Concat(Tail(ss))

\* all concatenations of at most n strings of parts
Strings(parts, n) ==
    {Concat(ss) : ss \in UNION {[1..k -> parts] : k \in 0..n}}

\* <N>
OpenTag(N) == <<"<">> \o N \o <<">">>

\* </N>
CloseTag(N) == <<"<", "/">> \o N \o <<">">>

MaxParts == 4
SeqParts == 2
ConcParts == 2

\* single characters, an unterminated opening and an unterminated release tag
CoreParts ==
    {<<"<">>, <<">">>, <<"/">>, <<"A">>, <<EAcute>>,
     <<"<">> \o LCtrl, <<"<">> \o RGui, <<"<", "/">> \o LCtrl}

\* every recognized name as an opening tag and as a release tag, alone, after an
\* opening tag, after a two-byte character, and followed by a character
NameOutputs ==
    {pre \o tag \o post :
        pre \in {<<>>, OpenTag(LShift), OpenTag(RAlt), <<EAcute>>},
        tag \in {OpenTag(N) : N \in Names} \cup {CloseTag(N) : N \in Names},
        post \in {<<>>, <<"A">>}}

Outputs == Strings(CoreParts, MaxParts) \cup NameOutputs

SeqOutputs == Strings({<<"<">>, <<">">>, <<"/">>, <<"A">>, <<"<">> \o LCtrl}, SeqParts)

ProbeOutputs == {<<"A">>, <<"A", "A">>, <<">", "/">>, OpenTag(LCtrl) \o <<">">>}

MaxCalls == 3

ConcOutputs ==
    Strings({<<">">>, <<"/">>, <<"A">>, <<"<", EAcute>>, OpenTag(LCtrl)}, ConcParts)

\* the records of the second of two concurrent invocations
OtherOutputs ==
    {<<"A">>, <<"A", "A">>, <<">", "/">>, OpenTag(LCtrl) \o <<">">>, <<"<", EAcute, ">">>}

(***************************************************************************)
(* The encoder as a state machine                                          *)
(***************************************************************************)
\* the first returned value for the probed output is kept
Keep(f) ==
    IF probe = Some(f.output) /\ first = None /\ f.pc = "returned"
    THEN first' = Some([ret |-> f.ret, call |-> ncalls'])
    ELSE UNCHANGED first

\* a record's get_hid_pairs is called: entry, fast path or the locals
Call(p, outs) ==
    /\ calls[p].pc = "idle"
    /\ \E out \in outs : calls' = Store(calls, p, Enter(calls[p], keys, out))
    /\ ncalls' = ncalls + 1
    /\ Keep(calls'[p])
    /\ UNCHANGED <<keys, probe, csv>>

\* the next record's get_hid_pairs is called once the previous call has returned
CallAgain(p, outs) ==
    /\ calls[p].pc = "returned"
    /\ ncalls < MaxCalls
    /\ \E out \in outs : calls' = Store(calls, p, Enter(calls[p], keys, out))
    /\ ncalls' = ncalls + 1
    /\ Keep(calls'[p])
    /\ UNCHANGED <<keys, probe, csv>>

\* one loop iteration of invocation p
ScanStep(p) ==
    /\ calls[p].pc = "scan"
    /\ calls[p].i < Len(calls[p].output)
    /\ calls' = Store(calls, p, Iterate(calls[p], keys))
    /\ UNCHANGED <<keys, probe, first, ncalls, csv>>

\* the input is exhausted: invocation p returns hid_pairs
Return(p) ==
    /\ calls[p].pc = "scan"
    /\ calls[p].i = Len(calls[p].output)
    /\ calls' = Store(calls, p, ReturnPairs(calls[p]))
    /\ UNCHANGED <<keys, probe, ncalls, csv>>
    /\ Keep(calls'[p])

\* one invocation on one record
Init ==
    /\ keys \in KeyTables
    /\ calls = [p \in {1} |-> IdleFrame]
    /\ probe = None
    /\ first = None
    /\ ncalls = 0
    /\ csv = CsvIdle

Next ==
    \/ Call(1, Outputs)
    \/ ScanStep(1)
    \/ Return(1)

Spec == Init /\ [][Next]_vars

\* one invocation at a time, any record after any other; the first result for
\* one output is remembered
InitSeq ==
    /\ keys \in KeyTables
    /\ calls = [p \in {1} |-> IdleFrame]
    /\ probe \in {Some(out) : out \in ProbeOutputs}
    /\ first = None
    /\ ncalls = 0
    /\ csv = CsvIdle

NextSeq ==
    \/ Call(1, SeqOutputs \cup ProbeOutputs)
    \/ CallAgain(1, SeqOutputs \cup ProbeOutputs)
    \/ ScanStep(1)
    \/ Return(1)

SpecSeq == InitSeq /\ [][NextSeq]_vars

\* two invocations on two records, their iterations interleaved
InitConc ==
    /\ keys \in KeyTables
    /\ calls = [p \in {1, 2} |-> IdleFrame]
    /\ probe = None
    /\ first = None
    /\ ncalls = 0
    /\ csv = CsvIdle

NextConc ==
    \/ Call(1, ConcOutputs)
    \/ Call(2, OtherOutputs)
    \/ \E p \in {1, 2} : ScanStep(p)
    \/ \E p \in {1, 2} : Return(p)

SpecConc == InitConc /\ [][NextConc]_vars

(***************************************************************************)
(* Properties                                                              *)
(***************************************************************************)
Frames == {calls[p] : p \in DOMAIN calls}

\* the frame went through the scan (it did not return on the fast path)
Scanned(f) == f.pc \in {"scan", "returned"} /\ ~TakesFastPath(f.output)

\* the characters read so far
Consumed(f) == SubSeq(f.output, 1, f.i)

\* the position of the last '<' of s, 0 when there is none
LastLt(s) ==
    LET at == {k \in 1..Len(s) : s[k] = "<"}
    IN  IF at = {} THEN 0 ELSE CHOOSE k \in at : \A j \in at : j <= k

\* the documented bit of each modifier name
NameBit(N) ==
    CASE N = LCtrl -> 1 [] N = LShift -> 2 [] N = LAlt -> 4 [] N = LGui -> 8
      [] N = RCtrl -> 16 [] N = RShift -> 32 [] N = RAlt -> 64 [] N = RGui -> 128

\* invocation p is about to read the '>' that closes a tag; the tag's text is
\* what stands between the most recent '<' and that '>'
AtTagEnd(f) ==
    /\ f.pc = "scan"
    /\ f.i < Len(f.output)
    /\ f.output[f.i + 1] = ">"
    /\ f.reading_tag

TagText(f) == SubSeq(f.output, LastLt(Consumed(f)) + 1, f.i)

\* C1: an output of exactly one character returns [(0, code)] from the lookup of
\* that string, or [(0, 0)] when the lookup has no entry, and never enters the scan.
C1_SingleCharFastPath ==
    \A f \in Frames :
        (f.pc # "idle" /\ Len(f.output) = 1) =>
            /\ f.pc = "returned"
            /\ f.ret = Some(<< <<0, IF f.output \in DOMAIN keys
                                    THEN keys[f.output] ELSE 0>> >>)

\* C2: get_hid_pairs never fails: no call ends in a panic, whatever the output.
C2_NeverPanics == \A f \in Frames : f.pc # "panicked"

\* C3: once an opening tag <N> and later a release tag </N> have been scanned,
\* N's bit is clear in current_modifiers right after the release tag's '>'.
C3_TagRelease ==
    \A f \in Frames : \A N \in Names :
        LET open == OpenTag(N)
            close == CloseTag(N)
        IN  ( /\ Scanned(f)
              /\ f.i >= Len(open) + Len(close)
              /\ SubSeq(f.output, f.i - Len(close) + 1, f.i) = close
              /\ \E j \in 1..(f.i - Len(close) - Len(open) + 1) :
                     SubSeq(f.output, j, j + Len(open) - 1) = open )
            => ~HasBits(f.current_modifiers, NameBit(N))

\* C4: when a tag without '/' whose name is a recognized name closes at '>', that
\* name's bit is OR-ed into current_modifiers, the state returns to Literal and no
\* event is emitted.
C4_TagSets ==
    [][\A p \in DOMAIN calls :
        (AtTagEnd(calls[p]) /\ calls'[p] # calls[p] /\ TagText(calls[p]) \in Names) =>
            /\ calls'[p].pc = "scan"
            /\ ~calls'[p].reading_tag
            /\ calls'[p].current_modifiers =
                   BitOr(calls[p].current_modifiers, NameBit(TagText(calls[p])))
            /\ calls'[p].hid_pairs = calls[p].hid_pairs]_vars

\* C5: when a tag whose name is not a recognized name closes at '>', the mask is
\* unchanged, no event is emitted and the scan goes on in the Literal state.
C5_UnknownTag ==
    [][\A p \in DOMAIN calls :
        (AtTagEnd(calls[p]) /\ calls'[p] # calls[p] /\ TagText(calls[p]) \notin Names) =>
            /\ calls'[p].pc = "scan"
            /\ ~calls'[p].reading_tag
            /\ calls'[p].current_modifiers = calls[p].current_modifiers
            /\ calls'[p].hid_pairs = calls[p].hid_pairs]_vars

\* C6: a scan that ends in the InTag state returns without error exactly the events
\* present once the last '<' was read (those emitted before it, plus the separator
\* of a '<' read inside a tag), and the mask is the one that '<' found; "<L-Ctrl"
\* returns the empty sequence.
C6_UnterminatedTag ==
    \A f \in Frames :
        (f.pc = "returned" /\ ~TakesFastPath(f.output) /\ f.reading_tag) =>
            LET k == LastLt(f.output)
                start == Enter(IdleFrame, keys, f.output)
                before == FrameAfter(start, keys, k - 1)
                at == FrameAfter(start, keys, k)
            IN  /\ k >= 1
                /\ f.ret = Some(at.hid_pairs)
                /\ f.current_modifiers = before.current_modifiers
                /\ at.hid_pairs \in
                       {before.hid_pairs,
                        Append(before.hid_pairs, <<before.current_modifiers, ENTER_CODE>>)}
                /\ (f.output = <<"<">> \o LCtrl => f.ret = Some(<<>>))

\* C6 witness: an unterminated tag after an emitted event, with characters after
\* its '<', has returned.
C6_Witness ==
    \E f \in Frames :
        /\ f.pc = "returned"
        /\ f.reading_tag
        /\ f.output = <<">", "<">> \o LCtrl \o <<"/">>
        /\ f.ret = Some(<< <<0, ENTER_CODE>> >>)

\* C7: every run starts with an empty buffer, mask 0, Literal state and closing
\* false, and a run on the probed output returns what the first run on it returned,
\* whatever was encoded in between.
C7_Deterministic ==
    \A f \in Frames :
        /\ (f.pc = "scan" /\ f.i = 0) =>
               /\ f.hid_pairs = <<>>
               /\ f.current_modifiers = 0
               /\ ~f.reading_tag
               /\ ~f.closing
        /\ (f.pc = "returned" /\ probe = Some(f.output) /\ first # None) =>
               f.ret = first[1].ret

\* C7 witness: the third call is a run on the probed output whose first result was
\* recorded by the first call, and it has returned events.
C7_Witness ==
    \E f \in Frames :
        /\ f.pc = "returned"
        /\ probe = Some(f.output)
        /\ first # None
        /\ first[1].call = 1
        /\ ncalls = 3
        /\ f.ret # Some(<<>>)
        /\ ~TakesFastPath(f.output)

\* C8: with the iterations of two invocations interleaved in any order, each
\* invocation returns the event sequence that the same call returns when run alone,
\* and panics only where the call run alone panics.
C8_Isolated ==
    \A f \in Frames :
        /\ f.pc = "returned" => f.ret = GetHidPairs(keys, f.output)
        /\ f.pc = "panicked" => GetHidPairs(keys, f.output) = None

\* C8 witness: both invocations are in the middle of their scans of different
\* outputs, one holding a modifier and the other having emitted an event.
C8_Witness ==
    /\ DOMAIN calls = {1, 2}
    /\ calls[1].pc = "scan" /\ calls[1].i >= 1 /\ calls[1].i < Len(calls[1].output)
    /\ calls[2].pc = "scan" /\ calls[2].i >= 1 /\ calls[2].i < Len(calls[2].output)
    /\ calls[1].hid_pairs # <<>>
    /\ calls[1].current_modifiers = 0
    /\ calls[2].current_modifiers = 1
\* the record as parse gives it back: an empty thumbs or fingers is absent
AbsentIfEmpty(chord) ==
    Chord(IF chord.thumbs = Some(<<>>) THEN None ELSE chord.thumbs,
          IF chord.fingers = Some(<<>>) THEN None ELSE chord.fingers,
          chord.output)

\* C9 as stated: parse of the text written by export returns the original records,
\* field for field and in order, also when thumbs or fingers is present but empty.
C9_RoundTrip ==
    (csv.pc = "parsed" /\ csv.from = "export") =>
        /\ csv.result.ok
        /\ csv.result.chords = csv.chords

\* C9 amended: parse of the text written by export returns a list of the same
\* length whose records equal the originals field for field and in order, except
\* that a thumbs or fingers that is present but empty is read back as absent.
C9_RoundTripAbsent ==
    (csv.pc = "parsed" /\ csv.from = "export") =>
        /\ csv.result.ok
        /\ Len(csv.result.chords) = Len(csv.chords)
        /\ \A k \in 1..Len(csv.chords) :
               csv.result.chords[k] = AbsentIfEmpty(csv.chords[k])

\* C9 witness: two records were exported and parsed back, with absent, empty and
\* non-empty optional fields and with commas, quotes and a line feed in the fields.
C9_Witness ==
    /\ csv.pc = "parsed"
    /\ csv.from = "export"
    /\ csv.result.ok
    /\ csv.chords =
           <<Chord(Some(<<>>), None, <<Quote, LineFeed, "a">>),
             Chord(Some(<<"a", Comma>>), Some(<<Quote>>), <<Comma, Quote>>)>>

\* C10: parse returns the complete ordered list, one record for every data row, or
\* an error; when a row has not the header's number of fields or the file has rows
\* and no output column, the result is an error and carries no record.
C10_AllOrNothing ==
    (csv.pc = "parsed" /\ csv.from = "file") =>
        LET malformed == \E k \in 1..Len(csv.rows) : Len(csv.rows[k]) # Len(csv.header)
            outputs == Columns(csv.header, OutputNames)
        IN  /\ (malformed \/ (csv.rows # <<>> /\ outputs = {})) =>
                   (~csv.result.ok /\ csv.result.chords = <<>>)
            /\ csv.result.ok =>
                   /\ Len(csv.result.chords) = Len(csv.rows)
                   /\ \A k \in 1..Len(csv.rows) : \A c \in outputs :
                          csv.result.chords[k].output = csv.rows[k][c]

\* C10 witness: a file whose first row is well formed and whose second row is too
\* short was parsed, and the result is an error.
C10_Witness ==
    /\ csv.pc = "parsed"
    /\ csv.from = "file"
    /\ Columns(csv.header, OutputNames) # {}
    /\ Len(csv.rows) = 2
    /\ Len(csv.rows[1]) = Len(csv.header)
    /\ Len(csv.rows[2]) < Len(csv.header)
    /\ ~csv.result.ok

(***************************************************************************)
(* C11, C12 : the rows of parse and of export                              *)
(***************************************************************************)
\* the headers of a Twiddler file: Thumbs, Fingers or " Fingers", Keyboard Output
TwiddlerHeaders ==
    {h \in Headers :
        /\ Len(h) = 3
        /\ h[1] = <<"T", "h", "u", "m", "b", "s">>
        /\ h[2] \in {<<"F", "i", "n", "g", "e", "r", "s">>, <<" ", "F", "i", "n", "g", "e", "r", "s">>}
        /\ h[3] = <<"K", "e", "y", "b", "o", "a", "r", "d", " ", "O", "u", "t", "p", "u", "t">>}

\* a column of a row as an optional field: the empty column is absent
ColumnOption(field) == IF Len(field) = 0 THEN None ELSE Some(field)

\* C11: under the headers Thumbs, Fingers (or " Fingers") and Keyboard Output,
\* parse returns one Chord per data row, in row order; the output of each is
\* the text of the row's third column, unchanged, and thumbs and fingers are
\* the first two columns, absent when the column is empty.
C11_ParseRows ==
    (/\ csv.pc = "parsed" /\ csv.from = "file"
     /\ csv.header \in TwiddlerHeaders
     /\ \A k \in 1..Len(csv.rows) : Len(csv.rows[k]) = 3) =>
        /\ csv.result.ok
        /\ Len(csv.result.chords) = Len(csv.rows)
        /\ \A k \in 1..Len(csv.rows) :
              /\ csv.result.chords[k].output = csv.rows[k][3]
              /\ csv.result.chords[k].thumbs = ColumnOption(csv.rows[k][1])
              /\ csv.result.chords[k].fingers = ColumnOption(csv.rows[k][2])

\* a file with the header " Fingers" and two rows, the row of test_parse and
\* a row whose thumbs and fingers columns are empty, has been parsed
C11_Witness ==
    /\ csv.pc = "parsed" /\ csv.from = "file"
    /\ csv.header \in TwiddlerHeaders /\ csv.header[2][1] = " "
    /\ Len(csv.rows) = 2
    /\ csv.rows[1] = <<<<"<", "T", "1", ">">>, <<"<", "T", "2", ">">>, CtrlF>>
    /\ csv.rows[2] = <<<<>>, <<>>, <<"a">>>>
    /\ csv.result.ok
    /\ Len(csv.result.chords) = 2
    /\ csv.result.chords[1].output = CtrlF
    /\ csv.result.chords[2].thumbs = None

\* a field the writer leaves bare
Plain(field) == \A k \in 1..Len(field) : field[k] \notin {Comma, Quote, LineFeed}

\* the line of three bare fields
Line(fields) ==
    fields[1] \o <<Comma>> \o fields[2] \o <<Comma>> \o fields[3] \o <<LineFeed>>

RECURSIVE Lines(_)
Lines(records) ==
    IF records = <<>> THEN <<>> ELSE Line(Head(records)) \o Lines(Tail(records))

\* the three columns of a chord: an absent field is the empty column
ChordColumns(chord) ==
    <<IF chord.thumbs = None THEN <<>> ELSE chord.thumbs[1],
      IF chord.fingers = None THEN <<>> ELSE chord.fingers[1],
      chord.output>>

\* C12: the text export writes for a non-empty list holds, after the record of
\* the field names, one record per Chord in the order of the list, made of
\* the chord's thumbs, fingers and output in that column order with the
\* output text unchanged; when no field needs quotes the text is those lines
\* with commas between the fields; the list handed to export is not changed.
C12_ExportRows ==
    /\ [](csv.from = "export" =>
            LET records == ReadRecords(csv.text)
                rows == [k \in 1..Len(csv.chords) |-> ChordColumns(csv.chords[k])]
            IN  /\ (csv.chords = <<>>) => csv.text = <<>>
                /\ (csv.chords # <<>>) =>
                      /\ Len(records) = Len(csv.chords) + 1
                      /\ \A k \in 1..Len(csv.chords) : records[k + 1] = rows[k]
                /\ (csv.chords # <<>> /\ \A k \in 1..Len(rows) : \A j \in 1..3 : Plain(rows[k][j])) =>
                      csv.text = Lines(<<StructHeader>> \o rows))
    /\ [][csv.from = "export" => csv'.chords = csv.chords]_vars

\* two chords have been exported, the first with the output of test_export
\* and a thumbs field that needs quotes, the second without thumbs or fingers
C12_Witness ==
    /\ csv.from = "export" /\ csv.pc = "written"
    /\ Len(csv.chords) = 2
    /\ csv.chords[1] = Chord(Some(<<"a", Comma>>), Some(<<>>), CtrlF)
    /\ csv.chords[2] = Chord(None, None, <<"a">>)
    /\ Len(ReadRecords(csv.text)) = 3

(***************************************************************************)
(* C13 .. C20 : the arms of the scan, one step at a time                   *)
(***************************************************************************)
\* invocation p runs one iteration of the loop in this step
StepOf(p) ==
    /\ calls[p].pc = "scan"
    /\ calls[p].i < Len(calls[p].output)
    /\ calls'[p] # calls[p]

\* the character the next iteration reads
NextChar(f) == f.output[f.i + 1]

\* the most recent '<' read was read inside a tag
NestedTag(f) ==
    LET k == LastLt(Consumed(f))
    IN  /\ k > 1
        /\ \E j \in 1..(k - 1) :
              /\ f.output[j] = "<"
              /\ \A m \in j..k : f.output[m] # ">"

\* C13: a '<' read inside a tag appends exactly one event (mask, 0x64), leaves
\* the mask and closing unchanged, stays inside the tag and moves tag_start to
\* this '<'; the name resolved at the next '>' is then the text after the most
\* recent '<' only.
C13_NestedLt ==
    /\ [][\A p \in DOMAIN calls :
            (StepOf(p) /\ NextChar(calls[p]) = "<" /\ calls[p].reading_tag) =>
                /\ calls'[p].pc = "scan"
                /\ calls'[p].hid_pairs =
                       Append(calls[p].hid_pairs, <<calls[p].current_modifiers, ENTER_CODE>>)
                /\ calls'[p].current_modifiers = calls[p].current_modifiers
                /\ calls'[p].closing = calls[p].closing
                /\ calls'[p].reading_tag
                /\ calls'[p].tag_start = calls[p].i]_vars
    /\ [](\A f \in Frames :
            (AtTagEnd(f) /\ NestedTag(f)) =>
                /\ SliceOk(f.output, f.tag_start + 1, f.i)
                /\ Slice(f.output, f.tag_start + 1, f.i) = TagText(f))

\* C14: in the Literal state a '>' appends exactly one event (mask, 0x64) and a
\* '/' exactly one event (mask, 0x38); the state stays Literal and the mask,
\* closing and tag_start are unchanged.
C14_StrayDelimiters ==
    [][\A p \in DOMAIN calls :
        (StepOf(p) /\ NextChar(calls[p]) \in {">", "/"} /\ ~calls[p].reading_tag) =>
            /\ calls'[p].pc = "scan"
            /\ calls'[p].hid_pairs =
                   Append(calls[p].hid_pairs,
                          <<calls[p].current_modifiers,
                            IF NextChar(calls[p]) = ">" THEN 100 ELSE 56>>)
            /\ ~calls'[p].reading_tag
            /\ calls'[p].current_modifiers = calls[p].current_modifiers
            /\ calls'[p].closing = calls[p].closing
            /\ calls'[p].tag_start = calls[p].tag_start]_vars

\* with the mask of L-Ctrl set, a stray '>' and then a stray '/' have been read
C14_Witness ==
    \E f \in Frames :
        /\ f.pc = "scan" /\ ~f.reading_tag
        /\ f.i = Len(f.output)
        /\ f.output = <<"<">> \o LCtrl \o <<">", ">", "/">>
        /\ f.hid_pairs = << <<1, 100>>, <<1, 56>> >>

\* C15: in the Literal state a character other than '<', '>' and '/' appends
\* (mask, code) where code is the lookup of the whole output, and appends
\* nothing when the whole output has no entry; so every event of a scan that
\* is not a separator carries the code of the whole output, and an output
\* without entry has only separator events.
C15_FullStringLookup ==
    /\ [][\A p \in DOMAIN calls :
            (StepOf(p) /\ NextChar(calls[p]) \notin {"<", ">", "/"} /\ ~calls[p].reading_tag) =>
                /\ calls'[p].pc = "scan"
                /\ calls'[p].hid_pairs =
                       IF calls[p].output \in DOMAIN keys
                       THEN Append(calls[p].hid_pairs,
                                   <<calls[p].current_modifiers, keys[calls[p].output]>>)
                       ELSE calls[p].hid_pairs
                /\ calls'[p].current_modifiers = calls[p].current_modifiers
                /\ ~calls'[p].reading_tag]_vars
    /\ [](\A f \in Frames :
            Scanned(f) =>
                \A k \in 1..Len(f.hid_pairs) :
                    f.hid_pairs[k][2] \notin {100, 56} =>
                        /\ f.output \in DOMAIN keys
                        /\ f.hid_pairs[k][2] = keys[f.output])

\* the A of <L-Ctrl>A has been read in a build whose table has the whole
\* string: its event carries that entry's code and not the code of A
C15_Witness ==
    \E f \in Frames :
        /\ f.pc = "scan" /\ f.i = Len(f.output)
        /\ f.output = <<"<">> \o LCtrl \o <<">", "A">>
        /\ keys = SampleKeys
        /\ f.hid_pairs = << <<1, 6>> >>

\* C16: inside a tag every character other than '<' and '>', '/' included,
\* appends no event and leaves the mask and the state unchanged; the mask
\* changes only at a step that reads '>' inside a tag.
C16_SilentInTag ==
    [][\A p \in DOMAIN calls :
        /\ (StepOf(p) /\ NextChar(calls[p]) \notin {"<", ">"} /\ calls[p].reading_tag) =>
              /\ calls'[p].pc = "scan"
              /\ calls'[p].hid_pairs = calls[p].hid_pairs
              /\ calls'[p].current_modifiers = calls[p].current_modifiers
              /\ calls'[p].reading_tag
        /\ (StepOf(p) /\ calls'[p].current_modifiers # calls[p].current_modifiers) =>
              AtTagEnd(calls[p])]_vars

\* with the mask of L-Ctrl set and no event so far, a '/' and a letter have
\* been read inside a second tag
C16_Witness ==
    \E f \in Frames :
        /\ f.pc = "scan" /\ f.reading_tag
        /\ f.i >= 2 /\ f.output[f.i - 1] = "/" /\ f.output[f.i] \notin {"<", ">", "/"}
        /\ f.current_modifiers = 1
        /\ f.hid_pairs = <<>>

\* the position of the '<' that opened the tag the scan is in
TagOpen(f) ==
    CHOOSE k \in 1..f.i :
        /\ f.output[k] = "<"
        /\ \A m \in k..f.i : f.output[m] # ">"
        /\ \A j \in 1..(k - 1) :
              f.output[j] = "<" => \E m \in j..k : f.output[m] = ">"

\* the bit a tag text stands for: none when it is not a modifier name
TextBit(text) == IF text \in Names THEN NameBit(text) ELSE 0

\* C17: the release flag does not leak between tags: once a tag has closed at
\* '>' closing is false, so a later tag without '/' ORs its bit into the mask
\* and clears none, whatever was scanned before it.
C17_NoLeak ==
    /\ [](\A f \in Frames : (f.pc = "scan" /\ ~f.reading_tag) => ~f.closing)
    /\ [][\A p \in DOMAIN calls :
            (/\ AtTagEnd(calls[p]) /\ calls'[p] # calls[p]
             /\ \A m \in TagOpen(calls[p])..calls[p].i : calls[p].output[m] # "/") =>
                /\ calls'[p].pc = "scan"
                /\ calls'[p].current_modifiers =
                       BitOr(calls[p].current_modifiers, TextBit(TagText(calls[p])))]_vars

\* C18: an appended event holds the mask of the step that appended it; events
\* are appended at the end, at most one per step; no later step changes or
\* removes an event, and the scan returns the buffer as it stands.
C18_SnapshotAppendOnly ==
    [][\A p \in DOMAIN calls :
        (calls[p].pc = "scan" /\ calls'[p] # calls[p]) =>
            LET old == calls[p].hid_pairs
                new == calls'[p].hid_pairs
            IN  /\ \/ new = old
                   \/ /\ Len(new) = Len(old) + 1
                      /\ SubSeq(new, 1, Len(old)) = old
                      /\ new[Len(new)][1] = calls[p].current_modifiers
                      /\ new[Len(new)][1] = calls'[p].current_modifiers
                /\ (calls'[p].pc = "returned") => calls'[p].ret = Some(old)]_vars

\* a separator emitted under the empty mask is still (0, 0x64) after a tag
\* has set the bit of L-Ctrl and a second separator was emitted under it
C18_Witness ==
    \E f \in Frames :
        /\ f.pc = "returned"
        /\ f.output = <<">", "<">> \o LCtrl \o <<">", ">">>
        /\ f.current_modifiers = 1
        /\ f.ret = Some(<< <<0, 100>>, <<1, 100>> >>)

\* C19: every scanned character appends at most one event, so the events
\* returned are at most the characters of output, and none for the empty
\* output; the scan ends after exactly one step per character.
C19_OneStepPerChar ==
    /\ [](\A f \in Frames :
            /\ Scanned(f) => (Len(f.hid_pairs) <= f.i /\ f.i <= Len(f.output))
            /\ (f.pc = "returned") =>
                  /\ Len(f.ret[1]) <= Len(f.output)
                  /\ (f.output = <<>>) => f.ret = Some(<<>>)
            /\ (f.pc \notin {"idle", "scan"} /\ ~TakesFastPath(f.output)) =>
                  (f.pc = "returned" /\ f.i = Len(f.output)))
    /\ [][\A p \in DOMAIN calls :
            StepOf(p) =>
                /\ calls'[p].pc = "scan"
                /\ calls'[p].i = calls[p].i + 1
                /\ Len(calls'[p].hid_pairs) <= Len(calls[p].hid_pairs) + 1]_vars

\* C20: while reading_tag is true, tag_start is the index of the most recent
\* '<' and is below the index of the character read; at a closing '>' the
\* bounds satisfy tag_start + 1 <= i <= length of output; when every character
\* of output is one byte, tag_contents is the characters strictly between the
\* most recent '<' and this '>' and holds neither '<' nor '>'.
C20_TagBounds ==
    \A f \in Frames :
        (f.pc = "scan" /\ f.reading_tag) =>
            /\ f.tag_start + 1 = LastLt(Consumed(f))
            /\ f.tag_start < f.i
            /\ AtTagEnd(f) =>
                  /\ f.tag_start + 1 <= f.i
                  /\ f.i <= Len(f.output)
                  /\ f.i <= ByteLen(f.output)
                  /\ (ByteLen(f.output) = Len(f.output)) =>
                        /\ SliceOk(f.output, f.tag_start + 1, f.i)
                        /\ Slice(f.output, f.tag_start + 1, f.i) =
                               SubSeq(f.output, LastLt(Consumed(f)) + 1, f.i)
                        /\ \A k \in (LastLt(Consumed(f)) + 1)..f.i :
                               f.output[k] \notin {"<", ">"}

\* the scan stands at the '>' of <<L-Ctrl> : tag_start is the second '<'
C20_Witness ==
    \E f \in Frames :
        /\ AtTagEnd(f)
        /\ f.output = <<"<", "<">> \o LCtrl \o <<">">>
        /\ f.tag_start = 1
        /\ Slice(f.output, f.tag_start + 1, f.i) = LCtrl

====
